---- MODULE Spec2Model ----
(***************************************************************************)
(* A model of nitrile.py: a tree of typed LaTeX nodes, the append          *)
(* operators that build it and the recursive rendering to text.            *)
(*                                                                         *)
(* Python objects live in `heap`, a sequence of records: the object with   *)
(* id i is heap[i], its instance attributes are the record's fields and    *)
(* `cls` is its class.  Python values are tagged records (None, str,       *)
(* list, reference to a node).  A Python string is a sequence of           *)
(* one-character strings, so formatting is concatenation.                  *)
(***************************************************************************)
EXTENDS Integers, Sequences, FiniteSets, TLC

VARIABLES heap, out, pc, script

vars == <<heap, out, pc, script>>

\* ------------------------------------------------------------------ bounds

\* Objects the free operations may allocate.
MaxNodes == 2
\* Appends (entries over all child lists) the free operations may make.
MaxAppends == 2

\* ------------------------------------------------------------ Python values

PyNone == [t |-> "None"]
PyStr(s) == [t |-> "str", v |-> s]
PyList(l) == [t |-> "list", v |-> l]
PyNode(i) == [t |-> "node", v |-> i]
PyBool(b) == [t |-> "bool", v |-> b]
PyRaise(e) == [t |-> "raise", v |-> e]

\* bool(v): None, '' and [] are false; a node defines neither __nonzero__
\* nor __len__, so it is true.
Truthy(v) ==
    CASE v.t = "None" -> FALSE
      [] v.t = "str" -> v.v /= <<>>
      [] v.t = "list" -> v.v /= <<>>
      [] v.t = "bool" -> v.v
      [] OTHER -> TRUE

isinstance_basestring(v) == v.t = "str"
isinstance_list(v) == v.t = "list"
isinstance_Node(v) == v.t = "node"

\* ------------------------------------------------------------ constructors

Node_init(c) == [cls |-> c, children |-> <<>>, parent |-> PyNone]

Document_init == Node_init("Document")
Content_init == Node_init("Content")
LineBreak_init == Node_init("LineBreak")

T_init(txt) ==
    [cls |-> "T", children |-> <<>>, parent |-> PyNone, txt |-> txt]

Text_init(txt) ==
    [cls |-> "Text", children |-> <<>>, parent |-> PyNone, txt |-> txt]

DQuote_init(txt) ==
    [cls |-> "DQuote", children |-> <<>>, parent |-> PyNone, txt |-> txt]

Comment_init(txt) ==
    [cls |-> "Comment", children |-> <<>>, parent |-> PyNone, txt |-> txt]

Switch_init(name) ==
    [cls |-> "Switch", children |-> <<>>, parent |-> PyNone, name |-> name]

Group_init(name) ==
    [cls |-> "Group", children |-> <<>>, parent |-> PyNone, name |-> name]

\* Environment(*args): args is a sequence of values.
Environment_init(args) ==
    [cls |-> "Environment", children |-> <<>>, parent |-> PyNone,
     name |-> IF args /= <<>> THEN args[1] ELSE PyNone,
     rest |-> IF args /= <<>> THEN Tail(args) ELSE <<>>]

Command_init(name, arguments, options, add_newline) ==
    [cls |-> "Command", children |-> <<>>, parent |-> PyNone,
     name |-> name,
     list_type |-> (~isinstance_basestring(arguments)
                    /\ ~isinstance_Node(arguments)
                    /\ isinstance_list(arguments)),
     str_type |-> isinstance_basestring(arguments),
     arguments |-> IF isinstance_basestring(arguments)
                   THEN PyList(<<arguments>>)
                   ELSE arguments,
     options |-> IF isinstance_basestring(options)
                 THEN PyList(<<options>>)
                 ELSE options,
     add_newline |-> add_newline]

\* The default of the add_newline parameter of Command.__init__.
Command_add_newline_default == FALSE

\* ------------------------------------------------------------------- heap

Ids(h) == 1..Len(h)
alloc(h, obj) == Append(h, obj)
fresh(h) == Len(h) + 1
hasattr(h, n, a) == a \in DOMAIN h[n]

\* list.append on self.children, then other.parent = self.
append_child(h, self, o) ==
    LET h1 == [h EXCEPT ![self].children = Append(@, o)]
    IN  [h1 EXCEPT ![o].parent = PyNode(self)]

\* __iadd__ with the child put in front of the list instead of at its end.
iadd_prepend(h, self, other) ==
    LET h0 == IF isinstance_basestring(other) THEN alloc(h, T_init(other.v))
              ELSE h
        o == IF isinstance_basestring(other) THEN fresh(h) ELSE other.v
        h1 == [h0 EXCEPT ![self].children = <<o>> \o @]
    IN  [h1 EXCEPT ![o].parent = PyNode(self)]

\* _Node.__iadd__: a basestring is wrapped in a new T first.
iadd(h, self, other) ==
    IF isinstance_basestring(other)
    THEN append_child(alloc(h, T_init(other.v)), self, fresh(h))
    ELSE append_child(h, self, other.v)

\* _Node.__add__: the same statements as __iadd__.
add(h, self, other) ==
    IF isinstance_basestring(other)
    THEN append_child(alloc(h, T_init(other.v)), self, fresh(h))
    ELSE append_child(h, self, other.v)

\* _Node.write: self += Text(txt).  Document overrides write(fout) with
\* fout.write(str(self)); given a str that raises AttributeError before
\* anything changes.
write(h, self, txt) ==
    IF h[self].cls = "Document"
    THEN h
    ELSE iadd(alloc(h, Text_init(txt)), self, PyNode(fresh(h)))

\* _Node.__getattr__, reached for a name no instance or class has.
getattr(h, self, name) ==
    CASE name = "Environment" ->
           iadd(alloc(h, Environment_init(<<PyNone>>)), self, PyNode(fresh(h)))
      [] name = "Command" ->
           iadd(alloc(h, Command_init(PyNone, PyNone, PyNone,
                                      Command_add_newline_default)),
                self, PyNode(fresh(h)))
      [] OTHER -> h

\* __call__ that leaves the name as it is.
call_keep(h, self, arg) == h

\* _Node.__call__: reading self.name on a class without that attribute
\* goes to __getattr__ and raises KeyError.
call(h, self, arg) ==
    IF hasattr(h, self, "name") /\ h[self].name = PyNone
    THEN [h EXCEPT ![self].name = arg]
    ELSE h

\* What __call__ returns: self after naming, None (no return) otherwise.
call_ret(h, self) ==
    IF ~hasattr(h, self, "name") THEN PyRaise("KeyError")
    ELSE IF h[self].name = PyNone THEN PyNode(self)
    ELSE PyNone

\* _Node.__enter__: return self.
enter(h, self) == h
enter_ret(h, self) == PyNode(self)

\* _Node.__exit__: pass.
exit(h, self) == h

\* --------------------------------------------------------------- strings

BS == "\\"
NL == "\n"
\* The grave accent and the apostrophe; the grave accent is written as a
\* named token because the lexer does not take it inside a string.
GRAVE == "GRAVE"
APOS == "'"
S_begin == <<BS, "b", "e", "g", "i", "n">>
S_end == <<BS, "e", "n", "d">>
S_None == <<"N", "o", "n", "e">>

\* What a rendering yields when it raises instead of returning a string.
RuntimeError == <<"RuntimeError">>
ValueError == <<"ValueError">>
Raises(s) == s \in {RuntimeError, ValueError}

\* ''.join(parts), parts evaluated left to right: the first one that raises
\* ends the evaluation.
RECURSIVE concat(_)
concat(parts) ==
    IF parts = <<>> THEN <<>>
    ELSE IF Raises(Head(parts)) THEN Head(parts)
    ELSE LET r == concat(Tail(parts))
         IN  IF Raises(r) THEN r ELSE Head(parts) \o r

\* sep.join(strs)
RECURSIVE join(_, _)
join(sep, strs) ==
    IF strs = <<>> THEN <<>>
    ELSE IF Len(strs) = 1 THEN strs[1]
    ELSE strs[1] \o sep \o join(sep, Tail(strs))

\* ''.join('{{{0}}}'.format(x) for x in strs)
RECURSIVE braced(_)
braced(strs) ==
    IF strs = <<>> THEN <<>>
    ELSE <<"{">> \o Head(strs) \o <<"}">> \o braced(Tail(strs))

\* [str(x) for x in l], for a list of strings.
strs(l) == [i \in 1..Len(l) |-> l[i].v]

\* -------------------------------------------------------------- rendering

\* How many nested __str__ calls a rendering of heap h is followed through.
\* The interpreter follows about a thousand and then raises RuntimeError.
\* Once more calls are nested than h has objects, some object is being
\* rendered inside its own rendering; nothing has changed since, so it
\* nests itself again without end and the interpreter's limit is reached.
\* Stopping at Len(h) therefore gives the interpreter's outcome.
RecursionLimit(h) == Len(h)

\* list.index(sib): the first position holding sib, 0 when there is none
\* (where Python raises ValueError).
index(children, sib) ==
    IF \E i \in 1..Len(children) : children[i] = sib
    THEN CHOOSE i \in 1..Len(children) :
           /\ children[i] = sib
           /\ \A j \in 1..(i - 1) : children[j] /= sib
    ELSE 0

\* _Node.next_sibling
next_sibling(h, self, sib) ==
    LET idx == index(h[self].children, sib)
    IN  IF idx = 0 THEN PyRaise("ValueError")
        ELSE IF idx + 1 <= Len(h[self].children)
        THEN PyNode(h[self].children[idx + 1])
        ELSE PyNone

isinstance_T(h, v) == v.t = "node" /\ h[v.v].cls = "T"

\* Command.insert_space: None without a parent, else `sib and
\* isinstance(sib, T)`.
Command_insert_space(h, n) ==
    IF Truthy(h[n].parent)
    THEN LET sib == next_sibling(h, h[n].parent.v, n)
         IN  IF sib.t = "raise" THEN sib
             ELSE IF ~Truthy(sib) THEN sib
             ELSE PyBool(isinstance_T(h, sib))
    ELSE PyNone

RECURSIVE str(_, _, _)

\* '{0}'.format(v)
pyformat(h, v, d) ==
    CASE v.t = "str" -> v.v
      [] v.t = "None" -> S_None
      [] v.t = "node" -> str(h, v.v, d - 1)

\* _Node.content
Node_content(h, n, d) ==
    concat([i \in 1..Len(h[n].children) |-> str(h, h[n].children[i], d - 1)])

LineBreak_content == <<BS, BS, NL>>

Group_start(h, n) ==
    (IF Truthy(h[n].name) THEN S_begin \o h[n].name.v ELSE <<"{">>) \o <<NL>>

Group_end(h, n) ==
    <<NL>> \o (IF Truthy(h[n].name) THEN S_end \o h[n].name.v ELSE <<"{">>)
           \o <<NL>>

Environment_start(h, n, d) ==
    concat(<< S_begin, <<"{">>, pyformat(h, h[n].name, d), <<"}">>,
              braced(strs(h[n].rest)), <<NL>> >>)

Environment_end(h, n, d) ==
    concat(<< <<NL>>, S_end, <<"{">>, pyformat(h, h[n].name, d), <<"}">>,
              <<NL>> >>)

Command_one(h, n) ==
    IF Truthy(h[n].options)
    THEN <<"[">> \o join(<<",">>, strs(h[n].options.v)) \o <<"]">>
    ELSE <<>>

\* An argument list rendered as one block, its elements joined by commas.
Command_two_joined(h, n, d) ==
    IF Truthy(h[n].arguments)
    THEN IF h[n].list_type \/ h[n].str_type
         THEN <<"{">> \o join(<<",">>, strs(h[n].arguments.v)) \o <<"}">>
         ELSE concat(<< <<"{">>, pyformat(h, h[n].arguments, d), <<"}">> >>)
    ELSE <<>>

Command_two(h, n, d) ==
    IF Truthy(h[n].arguments)
    THEN IF h[n].list_type THEN braced(strs(h[n].arguments.v))
         ELSE IF h[n].str_type
         THEN <<"{">> \o join(<<",">>, strs(h[n].arguments.v)) \o <<"}">>
         ELSE concat(<< <<"{">>, pyformat(h, h[n].arguments, d), <<"}">> >>)
    ELSE <<>>

Command_start(h, n, d) ==
    LET sp == Command_insert_space(h, n)
    IN  IF sp.t = "raise" THEN ValueError
        ELSE concat(<< <<BS>>, pyformat(h, h[n].name, d), Command_one(h, n),
                       Command_two(h, n, d),
                       IF Truthy(sp) THEN <<"{", "}">> ELSE <<>>,
                       IF h[n].add_newline THEN <<NL>> ELSE <<>> >>)

start(h, n, d) ==
    CASE h[n].cls = "Group" -> Group_start(h, n)
      [] h[n].cls = "Environment" -> Environment_start(h, n, d)
      [] h[n].cls = "Command" -> Command_start(h, n, d)
      [] h[n].cls = "DQuote" -> <<GRAVE, GRAVE>>
      [] h[n].cls = "Comment" -> <<"%", " ">>
      [] OTHER -> <<>>

content(h, n, d) ==
    CASE h[n].cls \in {"T", "DQuote", "Comment", "Text"} -> h[n].txt
      [] h[n].cls = "LineBreak" -> LineBreak_content
      [] OTHER -> Node_content(h, n, d)

end(h, n, d) ==
    CASE h[n].cls = "Group" -> Group_end(h, n)
      [] h[n].cls = "Environment" -> Environment_end(h, n, d)
      [] h[n].cls = "DQuote" -> <<APOS, APOS>>
      [] h[n].cls = "Comment" -> <<NL>>
      [] OTHER -> <<>>

\* Switch.__str__: the arguments of format are evaluated, then the format
\* string u'{0}\{{1}\}' is rejected ("Single '}' encountered").
Switch_str(h, n, d) ==
    LET c == content(h, n, d)
    IN  IF Raises(c) THEN c ELSE ValueError

\* __str__ of each class; d nested calls are left before the interpreter
\* raises RuntimeError.
str(h, n, d) ==
    IF d = 0 THEN RuntimeError
    ELSE CASE h[n].cls = "Switch" -> Switch_str(h, n, d)
           [] h[n].cls \in {"Text", "Document"} -> content(h, n, d)
           [] OTHER -> concat(<<start(h, n, d), content(h, n, d), end(h, n, d)>>)

\* str(node) called by the client.
render(h, n) == str(h, n, RecursionLimit(h))

\* ------------------------------------------------------------- operations

\* The last rendering returned to the client: the node, the result, and
\* whether a node was named since.  An append forgets it.
NoOut == [node |-> 0, s |-> <<>>, named |-> FALSE]
NoScript == [kind |-> "", p |-> 0, e |-> PyNone, n |-> <<>>, t |-> <<>>,
             pre |-> <<>>]

\* Entries over all child lists.
RECURSIVE SumLen(_, _)
SumLen(h, i) == IF i = 0 THEN 0 ELSE Len(h[i].children) + SumLen(h, i - 1)
Appends(h) == SumLen(h, Len(h))

Init ==
    /\ heap = <<>>
    /\ out = NoOut
    /\ pc = "idle"
    /\ script = NoScript

\* A constructor call: obj is the object __init__ leaves.
New(obj) ==
    /\ heap' = alloc(heap, obj)
    /\ UNCHANGED <<out, pc, script>>

\* self += other
IAdd(self, other) ==
    /\ out' = NoOut
    /\ UNCHANGED <<pc, script>>
    /\ heap' = iadd(heap, self, other)

\* self + other
Add(self, other) ==
    /\ out' = NoOut
    /\ UNCHANGED <<pc, script>>
    /\ heap' = add(heap, self, other)

\* self.write(txt)
Write(self, txt) ==
    /\ heap' = write(heap, self, txt)
    /\ out' = IF heap' = heap THEN out ELSE NoOut
    /\ UNCHANGED <<pc, script>>

\* self.<name>, for a name found on no instance or class
GetAttr(self, name) ==
    /\ heap' = getattr(heap, self, name)
    /\ out' = IF heap' = heap THEN out ELSE NoOut
    /\ UNCHANGED <<pc, script>>

\* self(arg)
Call(self, arg) ==
    /\ heap' = call(heap, self, arg)
    /\ out' = IF heap' /= heap /\ out.node /= 0
              THEN [out EXCEPT !.named = TRUE]
              ELSE out
    /\ UNCHANGED <<pc, script>>

\* A rendering that takes the children off the list as it joins them.
Str_consuming(n) ==
    /\ UNCHANGED <<pc, script>>
    /\ heap' = [heap EXCEPT ![n].children = <<>>]
    /\ out' = [node |-> n, s |-> render(heap, n), named |-> FALSE]

\* str(n): start, content, end and insert_space assign nothing.
Str(n) ==
    /\ UNCHANGED <<heap, pc, script>>
    /\ out' = [node |-> n, s |-> render(heap, n), named |-> FALSE]

\* ------------------------------------------------- the tree-building client

Names == {<<"n">>}
Txts == {<<"x">>}
AttrNames == {"Environment", "Command", "Foo"}

TreeObjects ==
    {Document_init}
      \cup {Switch_init(PyStr(n)) : n \in Names}
      \cup {T_init(x) : x \in Txts}
      \cup {Text_init(x) : x \in Txts}
      \cup {Command_init(PyStr(n), PyNone, PyNone, Command_add_newline_default)
              : n \in Names}

\* The client's calls, while fewer than nb objects exist and fewer than ab
\* appends were made.  What is appended is any object, or a plain string
\* while there is room for the T that wraps it.
TreeNext(nb, ab) ==
    \/ \E obj \in TreeObjects : Len(heap) < nb /\ New(obj)
    \/ \E self \in Ids(heap), o \in Ids(heap) :
         Appends(heap) < ab /\ IAdd(self, PyNode(o))
    \/ \E self \in Ids(heap), x \in Txts :
         Len(heap) < nb /\ Appends(heap) < ab /\ IAdd(self, PyStr(x))
    \/ \E self \in Ids(heap), o \in Ids(heap) :
         Appends(heap) < ab /\ Add(self, PyNode(o))
    \/ \E self \in Ids(heap), x \in Txts :
         Len(heap) < nb /\ Appends(heap) < ab /\ Add(self, PyStr(x))
    \/ \E self \in Ids(heap), x \in Txts :
         Len(heap) < nb /\ Appends(heap) < ab /\ Write(self, x)
    \/ \E self \in Ids(heap), name \in AttrNames :
         Len(heap) < nb /\ Appends(heap) < ab /\ GetAttr(self, name)
    \/ \E self \in Ids(heap), n \in Names : Call(self, PyStr(n))

Next == TreeNext(MaxNodes, MaxAppends)
Spec == Init /\ [][Next]_vars

\* The same client with room for one more object and one more append: a
\* parent, a Command and its sibling, and a Command appended twice.
NextWide == TreeNext(MaxNodes + 1, MaxAppends + 1)
SpecWide == Init /\ [][NextWide]_vars

\* The client also prints: any node is rendered at any time.
NextRender ==
    \/ TreeNext(MaxNodes, MaxAppends)
    \/ \E n \in Ids(heap) : Str(n)
SpecRender == Init /\ [][NextRender]_vars

\* ---------------------------------------------------- the tree: properties

Kids(h, n) == {h[n].children[i] : i \in 1..Len(h[n].children)}

RECURSIVE Closure(_, _, _)
Closure(h, S, k) ==
    IF k = 0 THEN S
    ELSE Closure(h, S \cup UNION {Kids(h, m) : m \in S}, k - 1)

\* The nodes below n in the child relation.
Descendants(h, n) == Closure(h, Kids(h, n), Len(h))

\* The places (parent, position) where n is a child.
Occurrences(h, n) ==
    {pi \in Ids(h) \X (1..MaxAppends + 1) :
       pi[2] <= Len(h[pi[1]].children) /\ h[pi[1]].children[pi[2]] = n}

IsLiteralText(h, n) == h[n].cls \in {"T", "Text"}

\* \name[options]{arguments} of a Command, before any empty block or newline.
CommandHead(h, c) ==
    <<BS>> \o pyformat(h, h[c].name, RecursionLimit(h)) \o Command_one(h, c)
           \o Command_two(h, c, RecursionLimit(h))

\* The prefix of Command c holds {} right after \name[options]{arguments}.
HasEmptyBlock(h, c) ==
    LET s == Command_start(h, c, RecursionLimit(h))
        k == Len(CommandHead(h, c))
    IN  /\ Len(s) >= k + 2
        /\ SubSeq(s, 1, k + 2) = CommandHead(h, c) \o <<"{", "}">>

\* C1: every Command whose right-hand neighbour in its parent's child list
\* is a literal-text leaf (a Text or a T) renders with an empty {} block
\* right after its name, options and arguments.
C1_EmptyBlockBeforeText ==
    \A p \in Ids(heap) : \A i \in 1..Len(heap[p].children) :
      LET c == heap[p].children[i]
      IN  (/\ heap[c].cls = "Command"
           /\ i < Len(heap[p].children)
           /\ IsLiteralText(heap, heap[p].children[i + 1]))
            => HasEmptyBlock(heap, c)

\* C2: an occurrence of a Command whose right-hand neighbour is absent or is
\* not a literal-text leaf renders without the empty {} block, and so does a
\* Command with no parent.
C2_NoEmptyBlockOtherwise ==
    /\ \A p \in Ids(heap) : \A i \in 1..Len(heap[p].children) :
         LET c == heap[p].children[i]
         IN  (/\ heap[c].cls = "Command"
              /\ \/ i = Len(heap[p].children)
                 \/ ~IsLiteralText(heap, heap[p].children[i + 1]))
               => ~HasEmptyBlock(heap, c)
    /\ \A c \in Ids(heap) :
         (heap[c].cls = "Command" /\ heap[c].parent = PyNone)
           => ~HasEmptyBlock(heap, c)

\* C3: every node occurs in the child list of at most one node, at most once
\* there, and that node is its recorded parent.
C3_SingleParent ==
    \A n \in Ids(heap) :
      /\ Cardinality(Occurrences(heap, n)) <= 1
      /\ \A pi \in Occurrences(heap, n) : heap[n].parent = PyNode(pi[1])

\* C4: the child relation has no cycle, and no rendering runs into the
\* recursion limit.
C4_Acyclic ==
    \A n \in Ids(heap) :
      /\ n \notin Descendants(heap, n)
      /\ render(heap, n) /= RuntimeError

\* The attributes of an object other than its child list and its parent.
Payload(obj) == [f \in DOMAIN obj \ {"children", "parent"} |-> obj[f]]

\* The classes that keep _Node.content: the content is that of the children.
Containers ==
    {"Document", "Content", "Group", "Environment", "Command", "Switch"}

RECURSIVE Flatten(_)
Flatten(ss) == IF ss = <<>> THEN <<>> ELSE Head(ss) \o Flatten(Tail(ss))

\* The renderings of the children of p, one after the other in list order.
ChildrenInOrder(h, p) ==
    Flatten([i \in 1..Len(h[p].children) |-> render(h, h[p].children[i])])

\* What `self += other` (or `self + other`) must make of heap h.
AppendEffect(h, h2, self, other) ==
    LET wrapped == isinstance_basestring(other)
        o == IF wrapped THEN fresh(h) ELSE other.v
    IN  /\ Len(h2) = IF wrapped THEN Len(h) + 1 ELSE Len(h)
        /\ wrapped => /\ h2[o].cls = "T"
                      /\ h2[o].txt = other.v
                      /\ h2[o].children = <<>>
        /\ h2[self].children = Append(h[self].children, o)
        /\ h2[o].parent = PyNode(self)
        /\ \A m \in Ids(h) \ {self} : h2[m].children = h[m].children
        /\ \A m \in Ids(h) \ {o} : h2[m].parent = h[m].parent
        /\ \A m \in Ids(h) : Payload(h2[m]) = Payload(h[m])
        /\ (h2[self].cls \in Containers
              /\ ~Raises(content(h2, self, RecursionLimit(h2))))
             => content(h2, self, RecursionLimit(h2)) = ChildrenInOrder(h2, self)

\* C7: `self += other` and `self + other` put other (a plain string wrapped
\* in a new T) at the end of self's child list, set its parent to self and
\* change no other child list, parent or payload; the content of a container
\* is then the renderings of its children in insertion order.
C7_AppendContract ==
    [][ heap' /= heap =>
          /\ \A self \in Ids(heap), o \in Ids(heap) :
               (IAdd(self, PyNode(o)) \/ Add(self, PyNode(o)))
                 => AppendEffect(heap, heap', self, PyNode(o))
          /\ \A self \in Ids(heap), x \in Txts :
               (IAdd(self, PyStr(x)) \/ Add(self, PyStr(x)))
                 => AppendEffect(heap, heap', self, PyStr(x)) ]_vars

\* A plain string was appended to a container: it holds a T whose parent it
\* is, and renders.
C7_Witness ==
    \E p \in Ids(heap) :
      /\ heap[p].cls \in Containers
      /\ Len(heap[p].children) >= 1
      /\ heap[heap[p].children[Len(heap[p].children)]].cls = "T"
      /\ heap[heap[p].children[Len(heap[p].children)]].parent = PyNode(p)
      /\ p \notin Kids(heap, p)
      /\ ~Raises(render(heap, p))
      /\ render(heap, p) /= <<>>

\* C8 as stated: a rendering changes no object, and two renderings of a node
\* with no append in between return the same string.
C8_RepeatableWithoutAppend ==
    [][ \A n \in Ids(heap) :
          \/ /\ heap' = heap
             /\ out.node = n => out'.s = out.s
          \/ ~Str(n) ]_vars

\* C8 amended: a rendering changes no object, and two renderings of a node
\* with neither an append nor the naming of a node in between have the same
\* outcome (the same string, or the same error).
C8_RenderPure ==
    [][ \A n \in Ids(heap) :
          \/ /\ heap' = heap
             /\ (out.node = n /\ ~out.named) => out'.s = out.s
          \/ ~Str(n) ]_vars

\* A node with a child was rendered to a string, and is as it was rendered.
C8_Witness ==
    /\ out.node /= 0
    /\ ~out.named
    /\ heap[out.node].children /= <<>>
    /\ ~Raises(out.s)
    /\ out.s /= <<>>
    /\ out.s = render(heap, out.node)

\* ------------------------------------------------- the Command templates

\* Objects of one class only are built here, each a single call.
MaxTplNodes == 2

TplObjects ==
    {Group_init(PyNone), Group_init(PyStr(<<"g">>))}
      \cup {T_init(x) : x \in Txts}

\* The forms of the arguments parameter: absent, a string with a comma, a
\* list of strings (two, none), and any existing node.
ArgChoices(h) ==
    << PyNone, PyStr(<<"p", ",", "q">>),
       PyList(<<PyStr(<<"x">>), PyStr(<<"y">>)>>), PyList(<<>>) >>
      \o [i \in 1..Len(h) |-> PyNode(i)]

\* The forms of the options parameter.
OptChoices ==
    << PyNone, PyStr(<<"o">>), PyList(<<PyStr(<<"o">>), PyStr(<<"m">>)>>),
       PyList(<<>>) >>

CmdName == PyStr(<<"c">>)

\* Command(name, arguments, options): add_newline is not given.
NewCommand(name, arguments, options) ==
    New(Command_init(name, arguments, options, Command_add_newline_default))

\* Command(name, arguments, options, add_newline)
NewCommandFlag(name, arguments, options, add_newline) ==
    New(Command_init(name, arguments, options, add_newline))

NextTpl ==
    \/ \E obj \in TplObjects : Len(heap) < MaxTplNodes /\ New(obj)
    \/ \E a \in 1..Len(ArgChoices(heap)), o \in 1..Len(OptChoices) :
         Len(heap) < MaxTplNodes
           /\ NewCommand(CmdName, ArgChoices(heap)[a], OptChoices[o])
    \/ \E a \in 1..Len(ArgChoices(heap)), o \in 1..Len(OptChoices),
          nl \in BOOLEAN :
         Len(heap) < MaxTplNodes
           /\ NewCommandFlag(CmdName, ArgChoices(heap)[a], OptChoices[o], nl)

SpecTpl == Init /\ [][NextTpl]_vars

RECURSIVE CommaJoined(_)
CommaJoined(l) ==
    IF l = <<>> THEN <<>>
    ELSE IF Len(l) = 1 THEN l[1].v
    ELSE l[1].v \o <<",">> \o CommaJoined(Tail(l))

RECURSIVE BlockEach(_)
BlockEach(l) ==
    IF l = <<>> THEN <<>>
    ELSE <<"{">> \o l[1].v \o <<"}">> \o BlockEach(Tail(l))

\* [o1,...,ok] when options are given: a string is one option, an empty
\* list is none.
ExpectedOptions(o) ==
    CASE o.t = "None" -> <<>>
      [] o.t = "str" -> <<"[">> \o o.v \o <<"]">>
      [] o.t = "list" ->
           IF o.v = <<>> THEN <<>>
           ELSE <<"[">> \o CommaJoined(o.v) \o <<"]">>

\* The argument block by the form of the argument given to the constructor.
ExpectedArguments(h, a) ==
    CASE a.t = "None" -> <<>>
      [] a.t = "str" -> <<"{">> \o a.v \o <<"}">>
      [] a.t = "list" -> BlockEach(a.v)
      [] a.t = "node" -> <<"{">> \o render(h, a.v) \o <<"}">>

ExpectedPrefix(h, name, a, o) ==
    <<BS>> \o name.v \o ExpectedOptions(o) \o ExpectedArguments(h, a)

ArgumentRenders(h, a) == a.t = "node" => ~Raises(render(h, a.v))

\* C5: a Command constructed without the newline flag renders as its name,
\* options and arguments followed by exactly one newline.
C5_DefaultNewline ==
    [][ heap' /= heap =>
          \A a \in 1..Len(ArgChoices(heap)), o \in 1..Len(OptChoices) :
            (/\ NewCommand(CmdName, ArgChoices(heap)[a], OptChoices[o])
             /\ ArgumentRenders(heap, ArgChoices(heap)[a]))
              => render(heap', fresh(heap))
                   = ExpectedPrefix(heap, CmdName, ArgChoices(heap)[a],
                                    OptChoices[o]) \o <<NL>> ]_vars

\* C6: the prefix of a Command is \name, then [o1,...,ok] exactly when
\* options are given, then the argument block chosen by the form of the
\* argument: {s} for a string s, commas kept; one {e} per element of a list;
\* {rendering} for a node; nothing for none.  Only a newline may follow it
\* in a Command that has no parent yet.  (A construction that leaves the
\* flag out is the step that gives the default for it.)
C6_CommandPrefix ==
    [][ heap' /= heap =>
          \A a \in 1..Len(ArgChoices(heap)), o \in 1..Len(OptChoices) :
            \A nl \in BOOLEAN :
              (/\ NewCommandFlag(CmdName, ArgChoices(heap)[a],
                                 OptChoices[o], nl)
               /\ ArgumentRenders(heap, ArgChoices(heap)[a]))
                => LET s == Command_start(heap', fresh(heap),
                                          RecursionLimit(heap'))
                       e == ExpectedPrefix(heap, CmdName, ArgChoices(heap)[a],
                                           OptChoices[o])
                   IN  s = e \/ s = e \o <<NL>> ]_vars

\* A Command was built on a node, with a list of options.
C6_Witness ==
    \E c \in Ids(heap) :
      /\ heap[c].cls = "Command"
      /\ heap[c].arguments.t = "node"
      /\ heap[c].options.t = "list"
      /\ Len(heap[c].options.v) = 2
      /\ ~Raises(render(heap, c))

RECURSIVE StripNL(_)
StripNL(s) ==
    IF s = <<>> THEN <<>>
    ELSE IF Head(s) = NL THEN StripNL(Tail(s))
    ELSE <<Head(s)>> \o StripNL(Tail(s))

\* C9: an anonymous Group opens with { and closes with }, a named Group
\* opens with \begin<name> and closes with \end<name> (line breaks aside),
\* around the content of its children.
C9_GroupBraces ==
    \A g \in Ids(heap) :
      heap[g].cls = "Group" =>
        /\ render(heap, g)
             = Group_start(heap, g) \o content(heap, g, RecursionLimit(heap))
                 \o Group_end(heap, g)
        /\ heap[g].name = PyNone =>
             /\ StripNL(Group_start(heap, g)) = <<"{">>
             /\ StripNL(Group_end(heap, g)) = <<"}">>
        /\ heap[g].name /= PyNone =>
             /\ StripNL(Group_start(heap, g)) = S_begin \o heap[g].name.v
             /\ StripNL(Group_end(heap, g)) = S_end \o heap[g].name.v

\* ------------------------------------------------------ the shortcuts

\* The program of the module's examples, one statement per step:
\*     e = p.Environment          (or  p.Command(name), which ends it)
\*     e = e(name)
\*     with e as e:
\*         e.write(txt)
\* on any tree built before it.
ApiKinds == {"Environment", "Command"}

\* Appends made before the program starts; it makes two more.
MaxApiAppends == 1

WithGetAttr(p, kind) ==
    /\ pc = "idle"
    /\ pc' = "created"
    /\ script' = [kind |-> kind, p |-> p, e |-> PyNode(fresh(heap)),
                  n |-> <<>>, t |-> <<>>, pre |-> heap]
    /\ UNCHANGED out
    /\ heap' = getattr(heap, p, kind)

WithCall(n) ==
    /\ pc = "created"
    /\ pc' = IF script.kind = "Command" THEN "done" ELSE "named"
    /\ script' = [script EXCEPT !.n = n, !.e = call_ret(heap, script.e.v)]
    /\ UNCHANGED out
    /\ heap' = call(heap, script.e.v, PyStr(n))

WithEnter ==
    /\ pc = "named"
    /\ script.e.t = "node"
    /\ pc' = "entered"
    /\ script' = [script EXCEPT !.e = enter_ret(heap, script.e.v)]
    /\ UNCHANGED out
    /\ heap' = enter(heap, script.e.v)

WithWrite(txt) ==
    /\ pc = "entered"
    /\ pc' = "written"
    /\ script' = [script EXCEPT !.t = txt]
    /\ UNCHANGED out
    /\ heap' = write(heap, script.e.v, txt)

WithExit ==
    /\ pc = "written"
    /\ pc' = "done"
    /\ UNCHANGED <<out, script>>
    /\ heap' = exit(heap, script.e.v)

\* The same tree built with the constructors:
\*     e = Environment(name); e += Text(txt); p += e
DirectEnvironment(h, p, n, txt) ==
    LET e  == fresh(h)
        h1 == alloc(h, Environment_init(<<PyStr(n)>>))
        h2 == iadd(alloc(h1, Text_init(txt)), e, PyNode(fresh(h1)))
    IN  iadd(h2, p, PyNode(e))

\*     p += Command(name)
DirectCommand(h, p, n) ==
    iadd(alloc(h, Command_init(PyStr(n), PyNone, PyNone,
                               Command_add_newline_default)),
         p, PyNode(fresh(h)))

ApiObjects ==
    {Document_init}
      \cup {T_init(x) : x \in Txts}
      \cup {Command_init(PyStr(n), PyNone, PyNone,
                         Command_add_newline_default) : n \in Names}

NextApi ==
    \/ \E obj \in ApiObjects :
         pc = "idle" /\ Len(heap) < MaxNodes /\ New(obj)
    \/ \E self \in Ids(heap), o \in Ids(heap) :
         pc = "idle" /\ Appends(heap) < MaxApiAppends
           /\ IAdd(self, PyNode(o))
    \/ \E p \in Ids(heap), kind \in ApiKinds : WithGetAttr(p, kind)
    \/ \E n \in Names : WithCall(n)
    \/ WithEnter
    \/ \E txt \in Txts : WithWrite(txt)
    \/ WithExit

SpecApi == Init /\ [][NextApi]_vars

Direct ==
    IF script.kind = "Environment"
    THEN DirectEnvironment(script.pre, script.p, script.n, script.t)
    ELSE DirectCommand(script.pre, script.p, script.n)

\* C10: attribute access appends exactly one new child of the kind asked
\* for at the end of the parent, entering and leaving the context manager
\* change nothing, and the finished shortcut program leaves the tree that
\* constructing, writing and appending by hand gives, with the same
\* rendering of the parent and of the new child.
C10_ApiEquivalence ==
    [][ /\ (pc = "idle" /\ pc' = "created") =>
            /\ Len(heap') = Len(heap) + 1
            /\ heap'[Len(heap')].cls = script'.kind
            /\ heap'[Len(heap')].parent = PyNode(script'.p)
            /\ heap'[script'.p].children
                 = Append(heap[script'.p].children, Len(heap'))
            /\ \A m \in Ids(heap) \ {script'.p} : heap'[m] = heap[m]
        /\ (pc = "named" /\ pc' = "entered") => heap' = heap
        /\ (pc = "written" /\ pc' = "done") => heap' = heap
        /\ (pc /= "done" /\ pc' = "done") =>
            /\ heap' = Direct'
            /\ \A m \in {script'.p, Len(script'.pre) + 1} :
                 render(heap', m) = render(Direct', m)
      ]_vars

\* The with-block program has finished on a parent that had a child before,
\* and the parent renders.
C10_Witness ==
    /\ pc = "done"
    /\ script.kind = "Environment"
    /\ script.pre[script.p].children /= <<>>
    /\ Len(heap[script.p].children) = Len(script.pre[script.p].children) + 1
    /\ ~Raises(render(heap, script.p))

====
